---- MODULE Spec2Model ----
(***************************************************************************)
(* Credit quota read path (hooks/useAuth.ts) and authentication result /   *)
(* error normalisation layer (components/CreditSystem.tsx).                *)
(*                                                                         *)
(* Time is counted in hours.  A nullable value is a sequence of length 0   *)
(* (null / undefined) or 1 (the value).                                    *)
(***************************************************************************)
EXTENDS Integers, Sequences, FiniteSets, TLC

(* ---- bounds of the model ---- *)
MaxTime == 1
MaxFetches == 2

(* ---- program constants ---- *)
ResetCredits == 5
ResetHours == 24

Null == <<>>
Some(x) == <<x>>

VARIABLES
  clock,        \* wall clock: what new Date() returns
  store,        \* user_profiles row of the identity: Null or Some(row)
  session,      \* identity provider's current session user: Null or Some(id)
  sessionPending, \* the getSession() promise has not yet resolved
  subscribed,   \* the onAuthStateChange subscription is live
  user,         \* useState: user
  credits,      \* useState: credits
  resetTime,    \* useState: resetTime
  loading,      \* useState: loading
  fetches,      \* the fetchUserCredits invocations, by order of start
  started,      \* number of fetchUserCredits invocations started
  nIn,          \* normalizeError: the err it is applied to
  nOut,         \* normalizeError: Null, or Some(what it returned)
  rPc,          \* withRetry: "idle", "awaiting", "sleeping", "returned", "thrown"
  rTimes,       \* withRetry: the times argument
  rI,           \* withRetry: the loop index i
  rLastErr,     \* withRetry: lastErr, Null while unset
  rOutcome,     \* withRetry: Null, or Some(value returned or error thrown)
  rDelay,       \* withRetry: the delay of the pending setTimeout, in ms
  rCalls,       \* number of times fn has been invoked
  rKinds,       \* normalizeError's code of each failed attempt, in order
  aOp,          \* the AuthGateway operation called: "none", "signUp", "signIn",
                \* "sendPasswordReset", "updatePassword"
  aPc,          \* its position
  aEmail,       \* its email argument
  aPwdLen,      \* the length of its password argument
  aResult,      \* Null, or Some(the AuthResult it resolved to)
  aResetTime,   \* signUpUser: resetTime, the expiry of the new profile
  aInsert,      \* Null, or Some(how the insert of the profile settled)
  inserts,      \* number of inserts issued to user_profiles
  aReply,       \* Null, or Some(how a provider call made without withRetry
                \* settled)
  tReset,       \* updateResetTimer: new Date(resetTimeStr).getTime(), in ms
  tNow,         \* updateResetTimer: new Date().getTime(), in ms
  tOut,         \* Null, or Some(the text updateResetTimer set)
  cMounted,     \* a CreditSystem component is mounted
  marker,       \* localStorage 'fresherhub_guest_used': Null or Some(value)
  guestCredits, \* useState: guestCredits
  timeUntilReset, \* useState: timeUntilReset
  intervals,    \* the setInterval timers set and not cleared
  cInterval,    \* the timer the pending effect cleanup clears: Null or Some(id)
  nextInterval  \* number of setInterval calls made

hookVars == <<clock, store, session, sessionPending, subscribed, user, credits,
              resetTime, loading, fetches, started>>

classifyVars == <<nIn, nOut>>

retryVars == <<rPc, rTimes, rI, rLastErr, rOutcome, rDelay, rCalls, rKinds>>

authVars == <<aOp, aPc, aEmail, aPwdLen, aResult, aResetTime, aInsert, inserts,
             aReply>>

countdownVars == <<tReset, tNow, tOut>>

creditVars == <<cMounted, marker, guestCredits, timeUntilReset, intervals,
               cInterval, nextInterval>>

viewVars == <<countdownVars, creditVars>>

vars == <<hookVars, classifyVars, retryVars, authVars, viewVars>>

UserId == "u1"
FetchIds == 1..MaxFetches
StoredCredits == {Null, Some(0), Some(3)}
StoredResetAt == {0, 1, MaxTime + 1}
Rows == [credits : StoredCredits, credits_reset_at : StoredResetAt]

(* A fetchUserCredits invocation that has not started.                     *)
IdleFetch ==
  [pc |-> "idle", reply |-> "none", data |-> Null, now |-> 0,
   newResetTime |-> 0, updates |-> 0, updateReply |-> "none"]

(* data.credits || 5 : null, undefined and 0 are all falsy.                *)
CreditsOrDefault(c) ==
  IF c = Null \/ c = Some(0) THEN ResetCredits ELSE c[1]

(* A plausible slip: the new expiry counted from the old one.              *)
NewResetTimeFromExpiry(now, expiry) == expiry + ResetHours

(* const newResetTime = new Date();                                        *)
(* newResetTime.setHours(newResetTime.getHours() + 24);                    *)
(* now is the clock; expiry, the row's credits_reset_at, is not used.      *)
NewResetTime(now, expiry) == now + ResetHours

(* A fetchUserCredits invocation that has returned: its locals are gone;   *)
(* the path it took is kept.                                               *)
Returned(path) == [IdleFetch EXCEPT !.pc = "done", !.reply = path]

(* fetchUserCredits up to its first await: the select is issued.           *)
StartFetch(fs, n) ==
  [fs EXCEPT ![n + 1] = [IdleFetch EXCEPT !.pc = "select"]]

(* The state of the parts a specification does not exercise.               *)
HookIdle ==
  /\ clock = 0
  /\ store = Null
  /\ session = Null
  /\ sessionPending = FALSE
  /\ subscribed = FALSE
  /\ user = Null
  /\ credits = 0
  /\ resetTime = Null
  /\ loading = TRUE
  /\ fetches = [f \in FetchIds |-> IdleFetch]
  /\ started = 0

ClassifyIdle ==
  /\ nIn = [message |-> Null, status |-> Null]
  /\ nOut = Null

RetryIdle ==
  /\ rPc = "idle"
  /\ rTimes = 0
  /\ rI = 0
  /\ rLastErr = Null
  /\ rOutcome = Null
  /\ rDelay = 0
  /\ rCalls = 0
  /\ rKinds = <<>>

CountdownIdle ==
  /\ tReset = 0
  /\ tNow = 0
  /\ tOut = Null

CreditIdle ==
  /\ cMounted = FALSE
  /\ marker = Null
  /\ guestCredits = 1
  /\ timeUntilReset = <<>>
  /\ intervals = {}
  /\ cInterval = Null
  /\ nextInterval = 0

ViewIdle == CountdownIdle /\ CreditIdle

AuthIdle ==
  /\ aOp = "none"
  /\ aPc = "idle"
  /\ aEmail = <<>>
  /\ aPwdLen = 0
  /\ aResult = Null
  /\ aResetTime = 0
  /\ aInsert = Null
  /\ inserts = 0
  /\ aReply = Null

HookInit ==
  /\ ClassifyIdle /\ RetryIdle /\ AuthIdle /\ ViewIdle
  /\ clock = 0
  /\ store \in {Null} \cup {Some(r) : r \in Rows}
  /\ session \in {Null, Some(UserId)}
  /\ sessionPending = TRUE
  /\ subscribed = TRUE
  /\ user = Null
  /\ credits = 0
  /\ resetTime = Null
  /\ loading = TRUE
  /\ fetches = [f \in FetchIds |-> IdleFetch]
  /\ started = 0

(* Time passes.                                                            *)
Tick ==
  /\ clock < MaxTime
  /\ clock' = clock + 1
  /\ UNCHANGED <<store, session, sessionPending, subscribed, user, credits,
                 resetTime, loading, fetches, started>>
  /\ UNCHANGED <<classifyVars, retryVars, authVars, viewVars>>

(* supabase.auth.getSession().then(...)                                    *)
GetSessionResolved ==
  /\ sessionPending
  /\ sessionPending' = FALSE
  /\ user' = session
  /\ IF session # Null
       THEN /\ started < MaxFetches
            /\ fetches' = StartFetch(fetches, started)
            /\ started' = started + 1
       ELSE UNCHANGED <<fetches, started>>
  /\ loading' = FALSE
  /\ UNCHANGED <<clock, store, session, subscribed, credits, resetTime>>
  /\ UNCHANGED <<classifyVars, retryVars, authVars, viewVars>>

(* The onAuthStateChange callback, run on an event carrying session s.     *)
AuthStateChange(s) ==
  /\ subscribed
  /\ session' = s
  /\ user' = s
  /\ IF s # Null
       THEN /\ started < MaxFetches
            /\ fetches' = StartFetch(fetches, started)
            /\ started' = started + 1
            /\ UNCHANGED <<credits, resetTime>>
       ELSE /\ credits' = 0
            /\ resetTime' = Null
            /\ UNCHANGED <<fetches, started>>
  /\ UNCHANGED <<clock, store, sessionPending, subscribed, loading>>
  /\ UNCHANGED <<classifyVars, retryVars, authVars, viewVars>>

(* return () => subscription.unsubscribe()                                 *)
Unmount ==
  /\ subscribed
  /\ subscribed' = FALSE
  /\ UNCHANGED <<clock, store, session, sessionPending, user, credits,
                 resetTime, loading, fetches, started>>
  /\ UNCHANGED <<classifyVars, retryVars, authVars, viewVars>>

(* The account store serves the select of fetch f: .single() yields the    *)
(* row, or no data with an error (no row, or a failure), or the call       *)
(* throws.                                                                 *)
StoreSelect(f, outcome) ==
  /\ fetches[f].pc = "select"
  /\ outcome \in {"row", "error", "throw"}
  /\ outcome = "row" => store # Null
  /\ fetches' = [fetches EXCEPT ![f].pc = "selected",
                                ![f].reply = IF outcome = "error" /\ store = Null
                                               THEN "norow" ELSE outcome,
                                ![f].data = IF outcome = "row" THEN store ELSE Null]
  /\ UNCHANGED <<clock, store, session, sessionPending, subscribed, user,
                 credits, resetTime, loading, started>>
  /\ UNCHANGED <<classifyVars, retryVars, authVars, viewVars>>

(* fetchUserCredits resumes after the select.                              *)
SelectReturn(f) ==
  LET me == fetches[f] IN
  /\ me.pc = "selected"
  /\ IF me.reply = "throw"
       THEN /\ credits' = ResetCredits
            /\ fetches' = [fetches EXCEPT ![f] = Returned("selectThrow")]
            /\ UNCHANGED resetTime
       ELSE IF me.data = Null
       THEN /\ fetches' = [fetches EXCEPT ![f] = Returned(me.reply)]
            /\ UNCHANGED <<credits, resetTime>>
       ELSE IF clock >= me.data[1].credits_reset_at
       THEN /\ fetches' = [fetches EXCEPT ![f].pc = "update",
                                          ![f].now = clock,
                                          ![f].newResetTime =
                                             NewResetTime(clock, me.data[1].credits_reset_at),
                                          ![f].updates = me.updates + 1]
            /\ UNCHANGED <<credits, resetTime>>
       ELSE /\ credits' = CreditsOrDefault(me.data[1].credits)
            /\ resetTime' = Some(me.data[1].credits_reset_at)
            /\ fetches' = [fetches EXCEPT ![f] = Returned("fresh")]
  /\ UNCHANGED <<clock, store, session, sessionPending, subscribed, user,
                 loading, started>>
  /\ UNCHANGED <<classifyVars, retryVars, authVars, viewVars>>

(* The account store serves the update of fetch f: it applies it, or       *)
(* rejects it with an error in the result, or the call throws.             *)
StoreUpdate(f, outcome) ==
  /\ fetches[f].pc = "update"
  /\ outcome \in {"ok", "error", "throw"}
  /\ store' = IF outcome = "ok" /\ store # Null
                THEN Some([credits |-> Some(ResetCredits),
                           credits_reset_at |-> fetches[f].newResetTime])
                ELSE store
  /\ fetches' = [fetches EXCEPT ![f].pc = "updated", ![f].updateReply = outcome]
  /\ UNCHANGED <<clock, session, sessionPending, subscribed, user, credits,
                 resetTime, loading, started>>
  /\ UNCHANGED <<classifyVars, retryVars, authVars, viewVars>>

(* fetchUserCredits resumes after the update.                              *)
UpdateReturn(f) ==
  LET me == fetches[f] IN
  /\ me.pc = "updated"
  /\ IF me.updateReply = "throw"
       THEN /\ credits' = ResetCredits
            /\ fetches' = [fetches EXCEPT ![f] = Returned("updateThrow")]
            /\ UNCHANGED resetTime
       ELSE IF me.updateReply = "ok"
       THEN /\ credits' = ResetCredits
            /\ resetTime' = Some(me.newResetTime)
            /\ fetches' = [fetches EXCEPT ![f] = Returned("reset")]
       ELSE /\ fetches' = [fetches EXCEPT ![f] = Returned("updateError")]
            /\ UNCHANGED <<credits, resetTime>>
  /\ UNCHANGED <<clock, store, session, sessionPending, subscribed, user,
                 loading, started>>
  /\ UNCHANGED <<classifyVars, retryVars, authVars, viewVars>>

HookNext ==
  \/ Tick
  \/ GetSessionResolved
  \/ \E s \in {Null, Some(UserId)} : AuthStateChange(s)
  \/ Unmount
  \/ \E f \in FetchIds, o \in {"row", "error", "throw"} : StoreSelect(f, o)
  \/ \E f \in FetchIds : SelectReturn(f)
  \/ \E f \in FetchIds, o \in {"ok", "error", "throw"} : StoreUpdate(f, o)
  \/ \E f \in FetchIds : UpdateReturn(f)

Spec == HookInit /\ [][HookNext]_vars

(* ---- properties of fetchUserCredits ---- *)

(* Fetch f takes a step of its own.                                        *)
Steps(f) == fetches'[f] # fetches[f]

(* Fetch f returns in this step.                                           *)
Returns(f) == fetches[f].pc # "done" /\ fetches'[f].pc = "done"

(* The clock value fetch f compared, or compares in this step, with the    *)
(* row's expiry.                                                           *)
ReadTime(f) == IF fetches[f].pc = "selected" THEN clock ELSE fetches[f].now

(* C1: a read of an expired row at time now issues one update; the store,  *)
(* accepting it, holds credits 5 and expiry now + 24h; the hook's credits  *)
(* and resetTime are untouched by the read until the update's reply has    *)
(* arrived, and are then set to 5 and now + 24h.                           *)
C1_ExpiredReadResets ==
  [][\A f \in FetchIds :
       LET me == fetches[f] IN
       /\ (me.pc = "selected" /\ me.reply = "row" /\ Steps(f)
             /\ clock >= me.data[1].credits_reset_at)
            => /\ fetches'[f].pc = "update"
               /\ fetches'[f].now = clock
               /\ fetches'[f].newResetTime = clock + ResetHours
               /\ UNCHANGED <<credits, resetTime, store>>
       /\ (me.pc = "update" /\ Steps(f))
            => /\ UNCHANGED <<credits, resetTime>>
               /\ fetches'[f].updateReply = "ok" =>
                    store' = Some([credits |-> Some(5),
                                   credits_reset_at |-> me.now + 24])
       /\ (me.pc = "updated" /\ me.updateReply = "ok" /\ Steps(f))
            => /\ Returns(f)
               /\ credits' = 5
               /\ resetTime' = Some(me.now + 24)
    ]_vars

C1_Witness ==
  \E f \in FetchIds :
    /\ fetches[f].pc = "done" /\ fetches[f].reply = "reset"
    /\ credits = 5
    /\ resetTime = Some(clock + 24)
    /\ clock >= 1
    /\ store = Some([credits |-> Some(5), credits_reset_at |-> clock + 24])

(* C2: a read at a time before the row's expiry, of a row whose credits    *)
(* are a number 0..5, sets the hook's credits and resetTime to the row's   *)
(* and issues no update.                                                   *)
C2_FreshReadReturnsStored ==
  [][\A f \in FetchIds :
       LET me == fetches[f] IN
       (me.pc = "selected" /\ me.reply = "row" /\ Steps(f)
          /\ clock < me.data[1].credits_reset_at
          /\ me.data[1].credits # Null)
         => /\ credits' = me.data[1].credits[1]
            /\ resetTime' = Some(me.data[1].credits_reset_at)
            /\ Returns(f)
            /\ fetches'[f].updates = 0
            /\ UNCHANGED store
    ]_vars

(* C3: when a read that was served the account's row returns, whether or  *)
(* not its update was accepted, the hook's resetTime is null or later than *)
(* the time at which the read looked at the row.                           *)
C3_NeverExposedExpired ==
  [][\A f \in FetchIds :
       (Returns(f) /\ fetches[f].reply = "row")
         => (resetTime' = Null \/ resetTime'[1] > ReadTime(f))
    ]_vars

(* C4: a read that finds no row sets the hook's credits to 5 and issues    *)
(* no update.                                                              *)
C4_NoRowDefaultsToFive ==
  [][\A f \in FetchIds :
       (fetches[f].pc = "selected" /\ fetches[f].reply = "norow" /\ Steps(f))
         => /\ Returns(f)
            /\ credits' = 5
            /\ fetches'[f].updates = 0
            /\ UNCHANGED store
    ]_vars

(* C5: a read whose select or update fails, by an error in the result or   *)
(* by a throw, returns and leaves the hook with credits 5 and resetTime    *)
(* null.                                                                   *)
C5_FailureDegradesToDefault ==
  [][\A f \in FetchIds :
       LET me == fetches[f] IN
       (Steps(f)
          /\ \/ me.pc = "selected" /\ me.reply \in {"error", "throw"}
             \/ me.pc = "updated" /\ me.updateReply \in {"error", "throw"})
         => /\ Returns(f)
            /\ credits' = 5
            /\ resetTime' = Null
    ]_vars

(***************************************************************************)
(* ErrorClassifier: normalizeError (components/CreditSystem.tsx).          *)
(*                                                                         *)
(* A text is a sequence of words, standing for the words joined by single  *)
(* blanks; an err is [message, status], each Null when the field is        *)
(* absent.                                                                 *)
(***************************************************************************)
MaxParts == 2

(* String.prototype.toLowerCase, word by word.                             *)
LowerWord(w) ==
  CASE w = "Invalid" -> "invalid"
    [] w = "Email" -> "email"
    [] w = "User" -> "user"
    [] w = "Too" -> "too"
    [] w = "Many" -> "many"
    [] w = "Requests" -> "requests"
    [] w = "Network" -> "network"
    [] w = "Failed" -> "failed"
    [] OTHER -> w

toLowerCase(t) == [k \in 1..Len(t) |-> LowerWord(t[k])]

(* String.prototype.includes: phrase occurs in t as a run of words.        *)
includes(t, phrase) ==
  \E i \in 0..(Len(t) - Len(phrase)) :
    \A k \in 1..Len(phrase) : t[i + k] = phrase[k]

(* The phrases normalizeError looks for.                                   *)
TooManyRequests == <<"too", "many", "requests">>
InvalidLoginCredentials == <<"invalid", "login", "credentials">>
InvalidCredentials == <<"invalid", "credentials">>
EmailNotConfirmed == <<"email", "not", "confirmed">>
ConfirmYourEmail == <<"confirm", "your", "email">>
AlreadyRegistered == <<"already", "registered">>
UserAlreadyExists == <<"user", "already", "exists">>
EmailAlreadyInUse == <<"email", "already", "in", "use">>
ResetTokenIsInvalid == <<"reset", "token", "is", "invalid">>
TokenExpired == <<"token", "expired">>
InvalidOrExpired == <<"invalid", "or", "expired">>
PasswordShouldBeAtLeast == <<"password", "should", "be", "at", "least">>
PasswordTooShort == <<"password", "too", "short">>
Network == <<"network">>

Phrases ==
  {TooManyRequests, InvalidLoginCredentials, InvalidCredentials,
   EmailNotConfirmed, ConfirmYourEmail, AlreadyRegistered, UserAlreadyExists,
   EmailAlreadyInUse, ResetTokenIsInvalid, TokenExpired, InvalidOrExpired,
   PasswordShouldBeAtLeast, PasswordTooShort, Network}

(* The fixed messages, each one text of one word.                          *)
MsgRateLimited == <<"Too many attempts. Try again later.">>
MsgInvalidCredentials == <<"Invalid login credentials.">>
MsgEmailNotConfirmed == <<"Please confirm your email to continue.">>
MsgEmailAlreadyRegistered == <<"Email is already registered.">>
MsgLinkExpiredOrInvalid == <<"This link is invalid or has expired.">>
MsgWeakPassword == <<"Password is too weak. Use at least 8 characters.">>
MsgNetwork == <<"Network error. Check your connection and try again.">>
MsgFallback == <<"Something went wrong.">>

(* err?.message || "" : an absent and an empty message are both falsy.     *)
MessageOrEmpty(err) == IF err.message = Null THEN <<>> ELSE err.message[1]

(* Number(err?.status) || 0 : an absent status is NaN, which is falsy.     *)
StatusOf(err) == IF err.status = Null THEN 0 ELSE err.status[1]

(* A plausible slip: the NETWORK rule tried before the others.             *)
normalizeErrorNetworkFirst(err) ==
  LET msg == toLowerCase(MessageOrEmpty(err))
      status == StatusOf(err)
  IN IF includes(msg, Network) \/ status = 0
       THEN [code |-> "NETWORK", message |-> MsgNetwork]
     ELSE IF status = 429 \/ includes(msg, TooManyRequests)
       THEN [code |-> "RATE_LIMITED", message |-> MsgRateLimited]
     ELSE [code |-> "UNKNOWN",
           message |-> IF MessageOrEmpty(err) = <<>> THEN MsgFallback
                       ELSE MessageOrEmpty(err)]

normalizeError(err) ==
  LET msg == toLowerCase(MessageOrEmpty(err))
      status == StatusOf(err)
  IN IF status = 429 \/ includes(msg, TooManyRequests)
       THEN [code |-> "RATE_LIMITED", message |-> MsgRateLimited]
     ELSE IF includes(msg, InvalidLoginCredentials)
             \/ includes(msg, InvalidCredentials)
       THEN [code |-> "INVALID_CREDENTIALS", message |-> MsgInvalidCredentials]
     ELSE IF includes(msg, EmailNotConfirmed) \/ includes(msg, ConfirmYourEmail)
       THEN [code |-> "EMAIL_NOT_CONFIRMED", message |-> MsgEmailNotConfirmed]
     ELSE IF includes(msg, AlreadyRegistered)
             \/ includes(msg, UserAlreadyExists)
             \/ includes(msg, EmailAlreadyInUse)
       THEN [code |-> "EMAIL_ALREADY_REGISTERED",
             message |-> MsgEmailAlreadyRegistered]
     ELSE IF includes(msg, ResetTokenIsInvalid)
             \/ includes(msg, TokenExpired)
             \/ includes(msg, InvalidOrExpired)
       THEN [code |-> "LINK_EXPIRED_OR_INVALID",
             message |-> MsgLinkExpiredOrInvalid]
     ELSE IF includes(msg, PasswordShouldBeAtLeast)
             \/ includes(msg, PasswordTooShort)
       THEN [code |-> "WEAK_PASSWORD", message |-> MsgWeakPassword]
     ELSE IF includes(msg, Network) \/ status = 0
       THEN [code |-> "NETWORK", message |-> MsgNetwork]
     ELSE [code |-> "UNKNOWN",
           message |-> IF MessageOrEmpty(err) = <<>> THEN MsgFallback
                       ELSE MessageOrEmpty(err)]

(* ---- the errors the model draws from ---- *)

(* Messages are built from these parts: the phrases, messages the identity *)
(* provider is known to send, and texts that hold no phrase.               *)
Parts ==
  Phrases \cup
  {<<"Invalid", "login", "credentials">>, <<"Email", "not", "confirmed">>,
   <<"User", "already", "registered">>, <<"Too", "Many", "Requests">>,
   <<"Network", "request", "failed">>, <<"Failed", "to", "fetch">>,
   <<"boom">>}

RECURSIVE TextsOf(_)
TextsOf(n) ==
  IF n = 0 THEN {<<>>}
  ELSE LET shorter == TextsOf(n - 1)
       IN shorter \cup {t \o q : t \in shorter, q \in Parts}

Messages == {Null} \cup {Some(t) : t \in TextsOf(MaxParts)}
Statuses == {Null, Some(0), Some(400), Some(429)}
Errors == [message : Messages, status : Statuses]

ClassifyInit ==
  /\ HookIdle /\ RetryIdle /\ AuthIdle /\ ViewIdle
  /\ nIn \in Errors
  /\ nOut = Null

(* normalizeError applied to the err at hand.                              *)
Classify ==
  /\ nOut = Null
  /\ nOut' = Some(normalizeError(nIn))
  /\ UNCHANGED <<nIn, hookVars, retryVars, authVars, viewVars>>

ClassifyNext == Classify

SpecClassify == ClassifyInit /\ [][ClassifyNext]_vars

(* ---- properties of normalizeError ---- *)

(* The rules as the specification lists them: the phrases, the status, the *)
(* kind and the message of rules 1 to 7.                                   *)
RulePhrases ==
  << {TooManyRequests},
     {InvalidLoginCredentials, InvalidCredentials},
     {EmailNotConfirmed, ConfirmYourEmail},
     {AlreadyRegistered, UserAlreadyExists, EmailAlreadyInUse},
     {ResetTokenIsInvalid, TokenExpired, InvalidOrExpired},
     {PasswordShouldBeAtLeast, PasswordTooShort},
     {Network} >>

RuleStatus == << {Some(429)}, {}, {}, {}, {}, {}, {Some(0)} >>

RuleKind ==
  << "RATE_LIMITED", "INVALID_CREDENTIALS", "EMAIL_NOT_CONFIRMED",
     "EMAIL_ALREADY_REGISTERED", "LINK_EXPIRED_OR_INVALID", "WEAK_PASSWORD",
     "NETWORK" >>

RuleMessage ==
  << <<"Too many attempts. Try again later.">>,
     <<"Invalid login credentials.">>,
     <<"Please confirm your email to continue.">>,
     <<"Email is already registered.">>,
     <<"This link is invalid or has expired.">>,
     <<"Password is too weak. Use at least 8 characters.">>,
     <<"Network error. Check your connection and try again.">> >>

(* The message of err holds phrase p, letter case apart.                   *)
Holds(err, p) == includes(toLowerCase(MessageOrEmpty(err)), p)

RuleMatches(k, err) ==
  \/ \E p \in RulePhrases[k] : Holds(err, p)
  \/ err.status \in RuleStatus[k]

(* C6: normalizeError yields a result for every err; the first of rules 1  *)
(* to 7 that matches decides the kind, so that status 429 or "too many     *)
(* requests" yields RATE_LIMITED whatever else the message holds; every    *)
(* kind but UNKNOWN comes with its fixed message.                          *)
C6_FirstMatchWins ==
  nOut # Null =>
    LET r == nOut[1] IN
    /\ r.code \in {RuleKind[k] : k \in 1..7} \cup {"UNKNOWN"}
    /\ Len(r.message) > 0
    /\ \A k \in 1..7 :
         (RuleMatches(k, nIn) /\ \A j \in 1..(k - 1) : ~RuleMatches(j, nIn))
           => r = [code |-> RuleKind[k], message |-> RuleMessage[k]]
    /\ (nIn.status = Some(429) \/ Holds(nIn, TooManyRequests))
         => r.code = "RATE_LIMITED"
    /\ \A k \in 1..7 : r.code = RuleKind[k] => r.message = RuleMessage[k]

C6_Witness ==
  /\ nOut # Null
  /\ Holds(nIn, Network) /\ Holds(nIn, TooManyRequests)
  /\ nIn.status = Some(0)
  /\ nOut[1].code = "RATE_LIMITED"

(* C7: an err whose message holds none of the phrases and whose status is  *)
(* neither 429 nor the number 0, an absent status included, is UNKNOWN     *)
(* with its own message, or the fallback text when it has none.            *)
C7_NoMatchIsUnknown ==
  (/\ nOut # Null
   /\ \A p \in Phrases : ~Holds(nIn, p)
   /\ nIn.status \notin {Some(429), Some(0)})
    => nOut[1] = [code |-> "UNKNOWN",
                  message |-> IF nIn.message \in {Null, Some(<<>>)}
                                THEN <<"Something went wrong.">>
                                ELSE nIn.message[1]]

(***************************************************************************)
(* RetryPolicy: withRetry (components/CreditSystem.tsx).                   *)
(***************************************************************************)
DefaultTimes == 2
DefaultBaseDelayMs == 400

(* The errors an attempt may throw, and an identity provider may report.   *)
ThrownMessages ==
  {Null, Some(<<>>), Some(Network \o TooManyRequests)}
    \cup {Some(q) : q \in Parts}
ThrownErrors == [message : ThrownMessages, status : Statuses]

(* What the wrapped call resolves to: the provider's { data, error }.      *)
Replies ==
  [user : {Null, Some(UserId)}, error : {Null}]
    \cup [user : {Null}, error : {Some(e) : e \in ThrownErrors}]

RECURSIVE Pow2(_)
Pow2(n) == IF n = 0 THEN 1 ELSE 2 * Pow2(n - 1)

(* A plausible slip: every failure taken as final.                         *)
TransientNever(err) == FALSE

(* const transient = status === 429 || status === 0 ||                     *)
(*                   msg.includes("network")                               *)
Transient(err) ==
  LET msg == toLowerCase(MessageOrEmpty(err))
      status == StatusOf(err)
  IN status = 429 \/ status = 0 \/ includes(msg, Network)

(* A plausible slip: the same delay before every retry.                    *)
BackoffDelayFlat(i) == DefaultBaseDelayMs

(* baseDelayMs * Math.pow(2, i)                                            *)
BackoffDelay(i) == DefaultBaseDelayMs * Pow2(i)

(* withRetry(fn, times) is called: the first attempt starts.               *)
CallWithRetry(times) ==
  /\ rPc = "idle"
  /\ rPc' = "awaiting"
  /\ rTimes' = times
  /\ rI' = 0
  /\ rCalls' = rCalls + 1
  /\ UNCHANGED <<rLastErr, rOutcome, rDelay, rKinds>>

(* The attempt resolves: return await fn().                                *)
FnReturns(v) ==
  /\ rPc = "awaiting"
  /\ rPc' = "returned"
  /\ rOutcome' = Some(v)
  /\ UNCHANGED <<rTimes, rI, rLastErr, rDelay, rCalls, rKinds>>

(* The attempt rejects with err: the catch block.                          *)
FnThrows(err) ==
  /\ rPc = "awaiting"
  /\ rLastErr' = Some(err)
  /\ rKinds' = Append(rKinds, normalizeError(err).code)
  /\ IF ~Transient(err) \/ rI = rTimes
       THEN /\ rPc' = "thrown"
            /\ rOutcome' = Some(err)
            /\ UNCHANGED rDelay
       ELSE /\ rPc' = "sleeping"
            /\ rDelay' = BackoffDelay(rI)
            /\ UNCHANGED rOutcome
  /\ UNCHANGED <<rTimes, rI, rCalls>>

(* The backoff timer fires: i++, and the next attempt starts.              *)
TimerFires ==
  /\ rPc = "sleeping"
  /\ rI' = rI + 1
  /\ rDelay' = 0
  /\ IF rI + 1 <= rTimes
       THEN /\ rPc' = "awaiting"
            /\ rCalls' = rCalls + 1
            /\ UNCHANGED rOutcome
       ELSE /\ rPc' = "thrown"
            /\ rOutcome' = rLastErr
            /\ UNCHANGED rCalls
  /\ UNCHANGED <<rTimes, rLastErr, rKinds>>

RetryInit ==
  /\ HookIdle /\ ClassifyIdle /\ AuthIdle /\ ViewIdle
  /\ RetryIdle

RetryCalled ==
  /\ \E times \in 0..DefaultTimes : CallWithRetry(times)
  /\ UNCHANGED <<hookVars, classifyVars, authVars, viewVars>>

RetryFnReturns ==
  /\ \E v \in Replies : FnReturns(v)
  /\ UNCHANGED <<hookVars, classifyVars, authVars, viewVars>>

RetryFnThrows ==
  /\ \E err \in ThrownErrors : FnThrows(err)
  /\ UNCHANGED <<hookVars, classifyVars, authVars, viewVars>>

RetryTimerFires ==
  /\ TimerFires
  /\ UNCHANGED <<hookVars, classifyVars, authVars, viewVars>>

RetryNext ==
  \/ RetryCalled
  \/ RetryFnReturns
  \/ RetryFnThrows
  \/ RetryTimerFires

SpecRetry == RetryInit /\ [][RetryNext]_vars

(* ---- properties of withRetry ---- *)

(* C8: called with times = 2, withRetry invokes fn at most 3 times; when   *)
(* it throws after attempts that all failed with a NETWORK failure it has  *)
(* invoked fn exactly 3 times and throws the last attempt's error; when an *)
(* attempt resolves it returns that value, with one call per failure       *)
(* before it and the one that resolved.                                    *)
C8_AtMostThreeAttempts ==
  (rPc # "idle" /\ rTimes = 2) =>
    /\ rCalls <= 3
    /\ (rPc = "thrown" /\ \A k \in 1..Len(rKinds) : rKinds[k] = "NETWORK")
         => /\ rCalls = 3
            /\ Len(rKinds) = 3
            /\ rOutcome = rLastErr
            /\ rLastErr # Null
    /\ rPc = "returned"
         => /\ rOutcome # Null /\ rOutcome[1] \in Replies
            /\ rCalls = Len(rKinds) + 1

C8_Witness ==
  /\ rPc = "thrown" /\ rTimes = 2
  /\ rKinds = <<"NETWORK", "NETWORK", "NETWORK">>
  /\ rCalls = 3
  /\ rOutcome = Some([message |-> Some(<<"Failed", "to", "fetch">>),
                      status |-> Some(0)])

(* C9: a failed attempt is retried exactly when normalizeError gives it    *)
(* the kind RATE_LIMITED or NETWORK: after a first failure of any other    *)
(* kind fn has been invoked once and the error is thrown; a failure of     *)
(* kind RATE_LIMITED or NETWORK is thrown only when no attempt remains.    *)
C9_RetryIffTransientKind ==
  /\ (Len(rKinds) >= 1 /\ rKinds[1] \notin {"RATE_LIMITED", "NETWORK"})
       => /\ rCalls = 1
          /\ rPc = "thrown"
          /\ rOutcome = rLastErr
  /\ (rPc = "thrown" /\ rKinds[Len(rKinds)] \in {"RATE_LIMITED", "NETWORK"})
       => Len(rKinds) = rTimes + 1

(***************************************************************************)
(* AuthGateway: signUpUser, signInUser (components/CreditSystem.tsx).      *)
(*                                                                         *)
(* An email is a sequence of characters; a password is known by its        *)
(* length.                                                                 *)
(***************************************************************************)
MaxEmailLen == 5
MinPasswordLength == 8

Chars == {"a", "@", ".", " "}
Emails == UNION {[1..n -> Chars] : n \in 0..MaxEmailLen}
PwdLens == {0, 7, 8, 9}

(* The class [^\s@].                                                       *)
NotSpaceNorAt(c) == c # " " /\ c # "@"

(* A plausible slip: the pattern without its \.[^\s@]+ tail.               *)
isValidEmailNoTld(email) ==
  \E at \in 1..Len(email) :
    /\ email[at] = "@"
    /\ at > 1 /\ at < Len(email)
    /\ \A k \in 1..Len(email) : k # at => NotSpaceNorAt(email[k])

(* /^[^\s@]+@[^\s@]+\.[^\s@]+$/.test(email)                                *)
isValidEmail(email) ==
  \E at \in 1..Len(email), dot \in 1..Len(email) :
    /\ email[at] = "@" /\ email[dot] = "."
    /\ 1 < at /\ at + 1 < dot /\ dot < Len(email)
    /\ \A k \in 1..Len(email) : k # at => NotSpaceNorAt(email[k])

(* typeof pwd === "string" && pwd.length >= 8                              *)
isStrongPassword(pwdLen) == pwdLen >= MinPasswordLength

(* A plausible slip: the new account's reset instant left at the time of   *)
(* the sign-up.                                                            *)
SignUpResetTimeNoShift(now) == now

(* const resetTime = new Date();                                           *)
(* resetTime.setHours(resetTime.getHours() + 24);                          *)
SignUpResetTime(now) == now + ResetHours

MsgAccountCreated ==
  <<"Account created. Check your email to confirm your account.">>

(* Failures of the identity provider: wrong credentials, a registered     *)
(* email, an unconfirmed email, rate limiting, a failed fetch, and errors  *)
(* that carry no status.                                                   *)
ProviderErrors ==
  {[message |-> Some(<<"Invalid", "login", "credentials">>), status |-> Some(400)],
   [message |-> Some(<<"User", "already", "registered">>), status |-> Some(400)],
   [message |-> Some(<<"Email", "not", "confirmed">>), status |-> Some(400)],
   [message |-> Some(<<"Too", "Many", "Requests">>), status |-> Some(429)],
   [message |-> Some(<<"Failed", "to", "fetch">>), status |-> Some(0)],
   [message |-> Some(<<"Network", "request", "failed">>), status |-> Null],
   [message |-> Some(<<"Invalid", "login", "credentials">>), status |-> Null],
   [message |-> Some(<<"boom">>), status |-> Some(400)]}

(* What signUp and signInWithPassword resolve to.                          *)
ProviderReplies ==
  [user : {Null, Some(UserId)}, error : {Null}]
    \cup [user : {Null}, error : {Some(e) : e \in ProviderErrors}]

(* The errors a failed insert carries.                                     *)
InsertErrors ==
  {[message |-> Some(<<"boom">>), status |-> Null],
   [message |-> Some(<<"Failed", "to", "fetch">>), status |-> Some(0)]}

Failure(code, message) == [success |-> FALSE, code |-> code, message |-> message]

FailureOf(err) ==
  [success |-> FALSE, code |-> normalizeError(err).code,
   message |-> normalizeError(err).message, raw |-> err]

Success(message, userId) ==
  [success |-> TRUE, message |-> message, userId |-> userId]

(* signUpUser(email, password) up to its first await.                      *)
CallSignUp(email, pwdLen) ==
  /\ aOp = "none"
  /\ aOp' = "signUp"
  /\ aEmail' = email
  /\ aPwdLen' = pwdLen
  /\ IF ~isValidEmail(email)
       THEN /\ aResult' = Some(Failure("INVALID_EMAIL",
                                       <<"Enter a valid email address.">>))
            /\ aPc' = "done"
            /\ UNCHANGED retryVars
       ELSE IF ~isStrongPassword(pwdLen)
       THEN /\ aResult' = Some(Failure("WEAK_PASSWORD",
                                <<"Password must be at least 8 characters.">>))
            /\ aPc' = "done"
            /\ UNCHANGED retryVars
       ELSE /\ aPc' = "awaitRetry"
            /\ CallWithRetry(DefaultTimes)
            /\ UNCHANGED aResult
  /\ UNCHANGED <<aResetTime, aInsert, inserts, aReply, hookVars, classifyVars, viewVars>>

(* signUpUser resumes after withRetry.                                     *)
SignUpResumes ==
  /\ aOp = "signUp" /\ aPc = "awaitRetry"
  /\ rPc \in {"returned", "thrown"}
  /\ IF rPc = "thrown"
       THEN /\ aResult' = Some(FailureOf(rOutcome[1]))
            /\ aPc' = "done"
            /\ UNCHANGED <<inserts, aResetTime>>
       ELSE IF rOutcome[1].error # Null
       THEN /\ aResult' = Some(FailureOf(rOutcome[1].error[1]))
            /\ aPc' = "done"
            /\ UNCHANGED <<inserts, aResetTime>>
       ELSE IF rOutcome[1].user # Null
       THEN /\ aPc' = "awaitInsert"
            /\ aResetTime' = SignUpResetTime(clock)
            /\ inserts' = inserts + 1
            /\ UNCHANGED aResult
       ELSE /\ aResult' = Some(Success(MsgAccountCreated, rOutcome[1].user))
            /\ aPc' = "done"
            /\ UNCHANGED <<inserts, aResetTime>>
  /\ UNCHANGED <<aOp, aEmail, aPwdLen, aInsert, aReply, hookVars, classifyVars,
                 retryVars, viewVars>>

(* The account store serves the insert of the new profile: it stores the   *)
(* row, or rejects it with an error in the result, or the call throws.     *)
StoreInsert(outcome, err) ==
  /\ aOp = "signUp" /\ aPc = "awaitInsert"
  /\ outcome \in {"ok", "error", "throw"}
  /\ aPc' = "inserted"
  /\ aInsert' = IF outcome = "ok" THEN Some([reply |-> "ok"])
                ELSE Some([reply |-> outcome, error |-> err])
  /\ store' = IF outcome = "ok"
                THEN Some([user_id |-> rOutcome[1].user[1],
                           email |-> aEmail,
                           credits |-> Some(ResetCredits),
                           credits_reset_at |-> aResetTime])
                ELSE store
  /\ UNCHANGED <<aOp, aEmail, aPwdLen, aResult, aResetTime, inserts, aReply,
                 classifyVars, retryVars, viewVars>>
  /\ UNCHANGED <<clock, session, sessionPending, subscribed, user, credits,
                 resetTime, loading, fetches, started>>

(* signUpUser resumes after the insert.                                    *)
SignUpFinishes ==
  /\ aOp = "signUp" /\ aPc = "inserted"
  /\ aPc' = "done"
  /\ aResult' = IF aInsert[1].reply = "throw"
                  THEN Some(FailureOf(aInsert[1].error))
                  ELSE Some(Success(MsgAccountCreated, rOutcome[1].user))
  /\ UNCHANGED <<aOp, aEmail, aPwdLen, aResetTime, aInsert, inserts, aReply,
                 hookVars, classifyVars, retryVars, viewVars>>

(* signInUser(email, password) up to its first await.                      *)
CallSignIn(email, pwdLen) ==
  /\ aOp = "none"
  /\ aOp' = "signIn"
  /\ aEmail' = email
  /\ aPwdLen' = pwdLen
  /\ IF ~isValidEmail(email)
       THEN /\ aResult' = Some(Failure("INVALID_EMAIL",
                                       <<"Enter a valid email address.">>))
            /\ aPc' = "done"
            /\ UNCHANGED retryVars
       ELSE /\ aPc' = "awaitRetry"
            /\ CallWithRetry(DefaultTimes)
            /\ UNCHANGED aResult
  /\ UNCHANGED <<aResetTime, aInsert, inserts, aReply, hookVars, classifyVars, viewVars>>

(* A plausible slip: signInUser without its catch block, so that an error  *)
(* thrown by withRetry rejects the promise signInUser returned.            *)
SignInResumesUncaught ==
  /\ aOp = "signIn" /\ aPc = "awaitRetry"
  /\ rPc \in {"returned", "thrown"}
  /\ IF rPc = "thrown"
       THEN /\ aPc' = "rejected"
            /\ UNCHANGED aResult
       ELSE /\ aPc' = "done"
            /\ aResult' = IF rOutcome[1].error # Null
                            THEN Some(FailureOf(rOutcome[1].error[1]))
                            ELSE Some(Success(<<"Login successful.">>,
                                              rOutcome[1].user))
  /\ UNCHANGED <<aOp, aEmail, aPwdLen, aResetTime, aInsert, inserts, aReply,
                 hookVars, classifyVars, retryVars, viewVars>>

(* signInUser resumes after withRetry.                                     *)
SignInResumes ==
  /\ aOp = "signIn" /\ aPc = "awaitRetry"
  /\ rPc \in {"returned", "thrown"}
  /\ aPc' = "done"
  /\ aResult' = IF rPc = "thrown"
                  THEN Some(FailureOf(rOutcome[1]))
                ELSE IF rOutcome[1].error # Null
                  THEN Some(FailureOf(rOutcome[1].error[1]))
                ELSE Some(Success(<<"Login successful.">>, rOutcome[1].user))
  /\ UNCHANGED <<aOp, aEmail, aPwdLen, aResetTime, aInsert, inserts, aReply,
                 hookVars, classifyVars, retryVars, viewVars>>

MsgResetLinkSent == <<"Password reset link has been sent to your email.">>

MsgPasswordReset == <<"Password has been reset successfully.">>

MsgTryAgainLater == <<"Something went wrong. Please try again later.">>

(* The result of sendPasswordReset and of updatePassword: success and a    *)
(* message; on an error in the provider's result the message is            *)
(* error.message as it is, Null when the error has none.                   *)
PlainResult(success, message) == [success |-> success, message |-> message]

(* sendPasswordReset(email) up to its await of resetPasswordForEmail.       *)
CallSendPasswordReset(email) ==
  /\ aOp = "none"
  /\ aOp' = "sendPasswordReset"
  /\ aEmail' = email
  /\ aPc' = "awaitProvider"
  /\ UNCHANGED <<aPwdLen, aResult, aResetTime, aInsert, inserts, aReply,
                 hookVars, classifyVars, retryVars, viewVars>>

(* updatePassword(newPassword) up to its await of updateUser.              *)
CallUpdatePassword(pwdLen) ==
  /\ aOp = "none"
  /\ aOp' = "updatePassword"
  /\ aPwdLen' = pwdLen
  /\ aPc' = "awaitProvider"
  /\ UNCHANGED <<aEmail, aResult, aResetTime, aInsert, inserts, aReply,
                 hookVars, classifyVars, retryVars, viewVars>>

(* The provider call of sendPasswordReset or updatePassword settles: it    *)
(* resolves to a result, with or without an error, or it throws.           *)
DirectProviderSettles(outcome, v) ==
  /\ aOp \in {"sendPasswordReset", "updatePassword"}
  /\ aPc = "awaitProvider"
  /\ aPc' = "settled"
  /\ aReply' = Some([outcome |-> outcome, value |-> v])
  /\ UNCHANGED <<aOp, aEmail, aPwdLen, aResult, aResetTime, aInsert, inserts,
                 hookVars, classifyVars, retryVars, viewVars>>

(* sendPasswordReset resumes after resetPasswordForEmail.                  *)
SendPasswordResetResumes ==
  /\ aOp = "sendPasswordReset" /\ aPc = "settled"
  /\ aPc' = "done"
  /\ aResult' = IF aReply[1].outcome = "thrown"
                  THEN Some(PlainResult(FALSE, Some(MsgTryAgainLater)))
                ELSE IF aReply[1].value.error # Null
                  THEN Some(PlainResult(FALSE, aReply[1].value.error[1].message))
                ELSE Some(PlainResult(TRUE, Some(MsgResetLinkSent)))
  /\ UNCHANGED <<aOp, aEmail, aPwdLen, aResetTime, aInsert, inserts, aReply,
                 hookVars, classifyVars, retryVars, viewVars>>

(* updatePassword resumes after updateUser.                                *)
UpdatePasswordResumes ==
  /\ aOp = "updatePassword" /\ aPc = "settled"
  /\ aPc' = "done"
  /\ aResult' = IF aReply[1].outcome = "thrown"
                  THEN Some(PlainResult(FALSE, Some(MsgTryAgainLater)))
                ELSE IF aReply[1].value.error # Null
                  THEN Some(PlainResult(FALSE, aReply[1].value.error[1].message))
                ELSE Some(PlainResult(TRUE, Some(MsgPasswordReset)))
  /\ UNCHANGED <<aOp, aEmail, aPwdLen, aResetTime, aInsert, inserts, aReply,
                 hookVars, classifyVars, retryVars, viewVars>>

AuthInit ==
  /\ HookIdle /\ ClassifyIdle /\ RetryIdle /\ ViewIdle
  /\ AuthIdle

(* A caller calls signUpUser, or signInUser, with some arguments.          *)
SignUpCalled ==
  /\ aOp = "none"
  /\ \E email \in Emails, pwdLen \in PwdLens : CallSignUp(email, pwdLen)

SignInCalled ==
  /\ aOp = "none"
  /\ \E email \in Emails, pwdLen \in PwdLens : CallSignIn(email, pwdLen)

SendPasswordResetCalled ==
  /\ aOp = "none"
  /\ \E email \in Emails : CallSendPasswordReset(email)

UpdatePasswordCalled ==
  /\ aOp = "none"
  /\ \E pwdLen \in PwdLens : CallUpdatePassword(pwdLen)

(* The provider call made without withRetry settles.                       *)
DirectProviderReturns ==
  /\ aPc = "awaitProvider"
  /\ \E v \in ProviderReplies : DirectProviderSettles("returned", v)

DirectProviderThrows ==
  /\ aPc = "awaitProvider"
  /\ \E err \in ProviderErrors : DirectProviderSettles("thrown", err)

(* The provider call wrapped by withRetry settles.                         *)
ProviderReturns ==
  /\ aPc = "awaitRetry"
  /\ \E v \in ProviderReplies : FnReturns(v)
  /\ UNCHANGED <<hookVars, classifyVars, authVars, viewVars>>

ProviderThrows ==
  /\ aPc = "awaitRetry"
  /\ \E err \in ProviderErrors : FnThrows(err)
  /\ UNCHANGED <<hookVars, classifyVars, authVars, viewVars>>

AuthNext ==
  \/ SignUpCalled
  \/ SignInCalled
  \/ ProviderReturns
  \/ ProviderThrows
  \/ RetryTimerFires
  \/ SignUpResumes
  \/ \E o \in {"ok", "error", "throw"}, err \in InsertErrors : StoreInsert(o, err)
  \/ SignUpFinishes
  \/ SignInResumes
  \/ SendPasswordResetCalled
  \/ UpdatePasswordCalled
  \/ DirectProviderReturns
  \/ DirectProviderThrows
  \/ SendPasswordResetResumes
  \/ UpdatePasswordResumes
  \/ Tick

SpecAuth == AuthInit /\ [][AuthNext]_vars

(* ---- properties of signUpUser and signInUser ---- *)

(* An email of the shape local@domain.tld: no blank, one "@" that is not   *)
(* the first character, and after it a "." with a character before it and  *)
(* a character after it.                                                   *)
LocalAtDomainTld(email) ==
  LET ats == {k \in 1..Len(email) : email[k] = "@"} IN
  /\ Cardinality(ats) = 1
  /\ \A k \in 1..Len(email) : email[k] # " "
  /\ \A at \in ats :
       /\ at > 1
       /\ \E dot \in (at + 2)..(Len(email) - 1) : email[dot] = "."

(* C10: signUpUser with an email not of the shape local@domain.tld         *)
(* resolves to Failure INVALID_EMAIL, and with such an email and a         *)
(* password of fewer than 8 characters to Failure WEAK_PASSWORD;           *)
(* signInUser with an email not of that shape resolves to Failure          *)
(* INVALID_EMAIL; in each case the provider is never called and nothing is *)
(* inserted in the account store.                                          *)
C10_ValidationShortCircuits ==
  LET rejected(code) ==
        /\ aPc = "done"
        /\ aResult # Null
        /\ aResult[1].success = FALSE
        /\ aResult[1].code = code
        /\ rCalls = 0
        /\ inserts = 0
        /\ store = Null
  IN
  /\ (aOp \in {"signUp", "signIn"} /\ ~LocalAtDomainTld(aEmail))
       => rejected("INVALID_EMAIL")
  /\ (aOp = "signUp" /\ LocalAtDomainTld(aEmail) /\ aPwdLen < 8)
       => rejected("WEAK_PASSWORD")

C10_Witness ==
  /\ aOp = "signUp" /\ aPc = "done"
  /\ aEmail = <<"a", "@", "a", ".", "a">>
  /\ aPwdLen = 7
  /\ aResult[1].code = "WEAK_PASSWORD"

(* C11: when signUpUser is called with a valid email and a password of at  *)
(* least 8 characters, the provider sign-up succeeds with a new identity   *)
(* and the store accepts the insert, signUpUser computes the reset instant *)
(* as its clock reading plus 24 hours, and at the step where it returns    *)
(* the result is Success and the store holds the account of that identity  *)
(* with credits 5 and credits_reset_at equal to that instant.              *)
C11_SignUpProvisions ==
  [][/\ (aOp = "signUp" /\ aPc = "awaitRetry" /\ aPc' = "awaitInsert")
          => /\ isValidEmail(aEmail) /\ aPwdLen >= 8
             /\ aResetTime' = clock + 24
     /\ (aOp = "signUp" /\ aPc = "inserted" /\ aPc' = "done"
           /\ aInsert[1].reply = "ok")
          => /\ aResult' # Null
             /\ aResult'[1].success = TRUE
             /\ store' # Null
             /\ store'[1].user_id = rOutcome[1].user[1]
             /\ store'[1].credits = Some(5)
             /\ store'[1].credits_reset_at = aResetTime']_vars

C11_Witness ==
  /\ aOp = "signUp" /\ aPc = "done"
  /\ aInsert = Some([reply |-> "ok"])
  /\ aResult # Null /\ aResult[1].success = TRUE
  /\ store # Null /\ store[1].credits_reset_at = 25

(* C12: whenever the provider sign-up has succeeded, signUpUser returns    *)
(* Success, both when the insert reports an error in its result and when   *)
(* the insert call throws.                                                 *)
C12_ProvisioningFailureIgnored ==
  (/\ aOp = "signUp" /\ aPc = "done"
   /\ rPc = "returned" /\ rOutcome[1].error = Null)
    => /\ aResult # Null
       /\ aResult[1].success = TRUE

(* The attempts of the current withRetry call that have settled all failed *)
(* with status 429: the thrown ones, and the one that resolved if its      *)
(* result carries an error.  Among ProviderErrors the kind RATE_LIMITED is *)
(* that of the one error of status 429.                                    *)
AllAttemptsFailed429 ==
  /\ \A k \in 1..Len(rKinds) : rKinds[k] = "RATE_LIMITED"
  /\ rPc = "returned"
       => /\ rOutcome[1].error # Null
          /\ rOutcome[1].error[1].status = Some(429)

(* C13: when signInUser is called with a valid email and every provider    *)
(* sign-in attempt fails with status 429, the provider has been called 3   *)
(* times when signInUser returns, and the result is Failure RATE_LIMITED.  *)
C13_RateLimitedSignInRetried ==
  (/\ aOp = "signIn" /\ aPc = "done"
   /\ isValidEmail(aEmail)
   /\ AllAttemptsFailed429)
    => /\ rCalls = 3
       /\ aResult # Null
       /\ aResult[1].success = FALSE
       /\ aResult[1].code = "RATE_LIMITED"

(* The failure of the provider call of signUpUser or signInUser, once      *)
(* withRetry has settled: the error it threw, or the error in the result   *)
(* it returned; Null when the provider call succeeded.                     *)
ProviderFailure ==
  IF rPc = "thrown" THEN rOutcome
  ELSE IF rPc = "returned" THEN rOutcome[1].error
  ELSE Null

(* C15: signUpUser, signInUser, sendPasswordReset and updatePassword never *)
(* reject: whether the provider call returned a result, returned an error  *)
(* in the result or threw, the operation ends resolved to a result value;  *)
(* for signUpUser and signInUser a provider failure gives a result with    *)
(* success false and the code and message normalizeError gives for that    *)
(* failure.                                                                *)
C15_AlwaysResolves ==
  /\ aPc # "rejected"
  /\ aPc = "done"
       => /\ aResult # Null
          /\ aResult[1].success \in BOOLEAN
          /\ "message" \in DOMAIN aResult[1]
  /\ (aOp \in {"signUp", "signIn"} /\ aPc = "done" /\ ProviderFailure # Null)
       => /\ aResult[1].success = FALSE
          /\ aResult[1].code = normalizeError(ProviderFailure[1]).code
          /\ aResult[1].message = normalizeError(ProviderFailure[1]).message
  /\ (aOp \in {"sendPasswordReset", "updatePassword"} /\ aPc = "done")
       => (aResult[1].success <=>
             (aReply[1].outcome = "returned" /\ aReply[1].value.error = Null))

C15_Witness ==
  /\ aOp = "signIn" /\ aPc = "done"
  /\ rPc = "thrown" /\ rCalls = 3
  /\ aResult # Null /\ aResult[1].code = "RATE_LIMITED"

(* C16: in withRetry, a failed attempt i (0-based) that is transient and   *)
(* not the last one is followed by a wait of 400 * 2^i ms (400, then 800); *)
(* a failed attempt that is the last one, or not transient, is followed by *)
(* no wait: the error is thrown at once; and an attempt other than the     *)
(* first starts only at the step where the timer of the preceding wait     *)
(* fires.                                                                  *)
C16_BackoffDelays ==
  [][/\ (rPc = "awaiting" /\ rPc' = "sleeping")
          => /\ rDelay' = 400 * (2 ^ rI)
             /\ rI = 0 => rDelay' = 400
             /\ rI = 1 => rDelay' = 800
             /\ rI < rTimes
             /\ Transient(rLastErr'[1])
     /\ (rPc = "awaiting" /\ Len(rKinds') > Len(rKinds)
           /\ (rI = rTimes \/ ~Transient(rLastErr'[1])))
          => /\ rPc' = "thrown"
             /\ rDelay' = 0
             /\ rCalls' = rCalls
     /\ (rPc # "idle" /\ rCalls' # rCalls)
          => /\ rPc = "sleeping"
             /\ rDelay = 400 * (2 ^ rI)
             /\ rI' = rI + 1
             /\ rCalls' = rCalls + 1]_vars

C16_Witness ==
  /\ rPc = "sleeping" /\ rTimes = 2
  /\ rI = 1 /\ rDelay = 800
  /\ rCalls = 2

(* ---- properties of useAuth under concurrent balance reads ---- *)

(* C19: in useAuth, from a state where the sign-out has been processed     *)
(* (user null, credits 0, resetTime null), every step that leaves the user *)
(* null leaves credits 0 and resetTime null, whatever balance reads are    *)
(* still in flight.                                                        *)
C19_SignedOutStaysCleared ==
  [][(/\ user = Null /\ credits = 0 /\ resetTime = Null
      /\ user' = Null)
       => /\ credits' = 0
          /\ resetTime' = Null]_vars

(* C20: when a balance read that reset the expired account, its update     *)
(* accepted by the store, completes after another such read has completed, *)
(* the hook's resetTime equals the store's credits_reset_at.  With the     *)
(* clock at most MaxTime and every new expiry 24 hours ahead, two reads    *)
(* that both reset the account have overlapped.                            *)
C20_OverlappingReadsAgree ==
  [][\A f \in FetchIds, g \in FetchIds :
       (/\ f # g
        /\ fetches[g].pc = "done" /\ fetches[g].reply = "reset"
        /\ fetches[f].pc = "updated" /\ fetches[f].updateReply = "ok"
        /\ fetches'[f].pc = "done")
         => /\ store' # Null
            /\ resetTime' = Some(store'[1].credits_reset_at)]_vars

(* ---- CreditSystem: updateResetTimer ---- *)

MaxHours == 25

MsPerMinute == 60000

MsPerHour == 3600000

DigitChars == <<"0", "1", "2", "3", "4", "5", "6", "7", "8", "9">>

(* String(n) of a non-negative integer, as the template literal renders    *)
(* it: its decimal digits, most significant first.                         *)
RECURSIVE Decimal(_)
Decimal(n) ==
  IF n < 10 THEN <<DigitChars[n + 1]>>
  ELSE Decimal(n \div 10) \o <<DigitChars[(n % 10) + 1]>>

(* A plausible slip: the minutes taken from the whole difference.          *)
updateResetTimerNoRemainder(reset, now) ==
  LET diff == reset - now
      hours == diff \div MsPerHour
      minutes == diff \div MsPerMinute
  IN IF diff <= 0 THEN <<"Resetting...">>
     ELSE Decimal(hours) \o <<"h", " ">> \o Decimal(minutes) \o <<"m">>

(* updateResetTimer, as the text it passes to setTimeUntilReset; reset and *)
(* now are the getTime() of the two dates.  diff is positive where         *)
(* Math.floor and % are applied, so they are \div and % here.              *)
updateResetTimer(reset, now) ==
  LET diff == reset - now
      hours == diff \div MsPerHour
      minutes == (diff % MsPerHour) \div MsPerMinute
  IN IF diff <= 0 THEN <<"Resetting...">>
     ELSE Decimal(hours) \o <<"h", " ">> \o Decimal(minutes) \o <<"m">>

(* Instants in ms: whole hours up to MaxHours, plus 0, 1 or 59 minutes,    *)
(* plus 0, 1 or 59999 ms.                                                  *)
Instants ==
  {h * MsPerHour + m * MsPerMinute + ms :
     h \in 0..MaxHours, m \in {0, 1, 59}, ms \in {0, 1, 59999}}

NowInstants == {0, 1, MsPerHour, 24 * MsPerHour}

CountdownInit ==
  /\ HookIdle /\ ClassifyIdle /\ RetryIdle /\ AuthIdle /\ CreditIdle
  /\ tReset \in Instants
  /\ tNow \in NowInstants
  /\ tOut = Null

UpdateResetTimerRuns ==
  /\ tOut = Null
  /\ tOut' = Some(updateResetTimer(tReset, tNow))
  /\ UNCHANGED <<tReset, tNow, hookVars, classifyVars, retryVars, authVars,
                 creditVars>>

CountdownNext == UpdateResetTimerRuns

SpecCountdown == CountdownInit /\ [][CountdownNext]_vars

(* The value of a decimal numeral.                                         *)
DigitValue(c) == CHOOSE d \in 0..9 : DigitChars[d + 1] = c

RECURSIVE NumeralValue(_)
NumeralValue(ds) ==
  IF Len(ds) = 0 THEN 0
  ELSE 10 * NumeralValue(SubSeq(ds, 1, Len(ds) - 1)) + DigitValue(ds[Len(ds)])

IsNumeral(ds) ==
  /\ Len(ds) >= 1
  /\ \A k \in 1..Len(ds) : \E d \in 1..10 : DigitChars[d] = ds[k]
  /\ Len(ds) > 1 => ds[1] # "0"

(* C17: with remaining = resetAt - now in ms, updateResetTimer sets the    *)
(* text 'Resetting...' when remaining <= 0, and otherwise the text         *)
(* '<h>h <m>m' where h and m are decimal numerals, h is the whole hours of *)
(* remaining, m is the whole minutes of what is left after those hours,    *)
(* 0 <= m <= 59, and h * 60 + m is the whole minutes of remaining.         *)
C17_CountdownText ==
  tOut # Null =>
    LET remaining == tReset - tNow
        text == tOut[1]
    IN IF remaining <= 0 THEN text = <<"Resetting...">>
       ELSE \E at \in 2..(Len(text) - 3) :
              LET hs == SubSeq(text, 1, at - 1)
                  ms == SubSeq(text, at + 2, Len(text) - 1)
              IN /\ text[at] = "h" /\ text[at + 1] = " "
                 /\ text[Len(text)] = "m"
                 /\ IsNumeral(hs) /\ IsNumeral(ms)
                 /\ NumeralValue(hs) = remaining \div 3600000
                 /\ NumeralValue(ms) = (remaining % 3600000) \div 60000
                 /\ NumeralValue(ms) \in 0..59
                 /\ NumeralValue(hs) * 60 + NumeralValue(ms)
                      = remaining \div 60000

C17_Witness ==
  /\ tReset = 25 * 3600000 + 59 * 60000 + 59999
  /\ tNow = 3600000
  /\ tOut = Some(<<"2", "4", "h", " ", "5", "9", "m">>)

(* ---- CreditSystem: guest allowance and countdown interval ---- *)

MaxIntervals == 3

(* What a JavaScript condition makes of the value localStorage.getItem     *)
(* returned: null and the empty string are falsy.                          *)
Truthy(v) == v # Null /\ v[1] # ""

(* A plausible slip: the guest allowance granted whatever the marker.      *)
GuestCreditsAlwaysOne(used) == 1

(* used ? 0 : 1                                                            *)
GuestCreditsOf(used) == IF Truthy(used) THEN 0 ELSE 1

(* A plausible slip: an effect cleanup that clears nothing.                *)
clearIntervalNoop(timers, handle) == timers

(* clearInterval(interval): the timer of that handle is no longer set.     *)
clearInterval(timers, handle) ==
  {t \in timers : handle = Null \/ t.id # handle[1]}

(* !!user                                                                  *)
isAuthenticated(u) == u # Null

(* The clock of the model counts hours; getTime() counts ms.               *)
getTime(hours) == hours * MsPerHour

(* The values useAuth's resetTime takes.                                   *)
CreditResetTimes ==
  {Null} \cup {Some(t) : t \in (0..MaxTime) \cup {MaxTime + ResetHours}}

CreditInit ==
  /\ HookIdle /\ ClassifyIdle /\ RetryIdle /\ AuthIdle /\ CountdownIdle
  /\ CreditIdle

(* CreditSystem mounts: useAuth's and its own state take their initial     *)
(* values, useAuth subscribes to the auth state, and the two effects run:  *)
(* isAuthenticated is false, so the guest credit is computed; resetTime is *)
(* null, so no timer is set.                                               *)
CreditMount ==
  /\ ~cMounted
  /\ cMounted' = TRUE
  /\ user' = Null
  /\ credits' = 0
  /\ resetTime' = Null
  /\ loading' = TRUE
  /\ subscribed' = TRUE
  /\ guestCredits' = GuestCreditsOf(marker)
  /\ timeUntilReset' = <<>>
  /\ cInterval' = Null
  /\ UNCHANGED <<clock, store, session, sessionPending, fetches, started,
                 marker, intervals, nextInterval>>
  /\ UNCHANGED <<classifyVars, retryVars, authVars, countdownVars>>

(* useAuth's user changes; when isAuthenticated changes with it the effect *)
(* on [isAuthenticated] runs.                                              *)
UserChanges(u) ==
  /\ cMounted
  /\ u # user
  /\ user' = u
  /\ guestCredits' =
       IF isAuthenticated(u) # isAuthenticated(user) /\ ~isAuthenticated(u)
         THEN GuestCreditsOf(marker)
         ELSE guestCredits
  /\ UNCHANGED <<clock, store, session, sessionPending, subscribed, credits,
                 resetTime, loading, fetches, started>>
  /\ UNCHANGED <<cMounted, marker, timeUntilReset, intervals, cInterval,
                 nextInterval>>
  /\ UNCHANGED <<classifyVars, retryVars, authVars, countdownVars>>

(* useAuth's resetTime changes: the cleanup of the effect on [resetTime]   *)
(* runs, then the effect with the new value.                               *)
ResetTimeChanges(t) ==
  LET cleared == clearInterval(intervals, cInterval) IN
  /\ cMounted
  /\ t # resetTime
  /\ t # Null => nextInterval < MaxIntervals
  /\ resetTime' = t
  /\ IF t # Null
       THEN /\ timeUntilReset' = updateResetTimer(getTime(t[1]), getTime(clock))
            /\ intervals' = cleared \cup {[id |-> nextInterval + 1,
                                           resetTime |-> t[1]]}
            /\ cInterval' = Some(nextInterval + 1)
            /\ nextInterval' = nextInterval + 1
       ELSE /\ intervals' = cleared
            /\ cInterval' = Null
            /\ UNCHANGED <<timeUntilReset, nextInterval>>
  /\ UNCHANGED <<clock, store, session, sessionPending, subscribed, user,
                 credits, loading, fetches, started>>
  /\ UNCHANGED <<cMounted, marker, guestCredits>>
  /\ UNCHANGED <<classifyVars, retryVars, authVars, countdownVars>>

(* A timer that is set fires: () => updateResetTimer(resetTime), with the  *)
(* resetTime of the render that set it.                                    *)
IntervalFires(t) ==
  /\ t \in intervals
  /\ timeUntilReset' = updateResetTimer(getTime(t.resetTime), getTime(clock))
  /\ UNCHANGED <<cMounted, marker, guestCredits, intervals, cInterval,
                 nextInterval>>
  /\ UNCHANGED <<hookVars, classifyVars, retryVars, authVars, countdownVars>>

(* CreditSystem unmounts: the cleanups of its effects run.                 *)
CreditUnmount ==
  /\ cMounted
  /\ cMounted' = FALSE
  /\ intervals' = clearInterval(intervals, cInterval)
  /\ cInterval' = Null
  /\ subscribed' = FALSE
  /\ UNCHANGED <<clock, store, session, sessionPending, user, credits,
                 resetTime, loading, fetches, started>>
  /\ UNCHANGED <<marker, guestCredits, timeUntilReset, nextInterval>>
  /\ UNCHANGED <<classifyVars, retryVars, authVars, countdownVars>>

(* The guest's one analysis is consumed: the consumer, outside these       *)
(* sources, sets the marker.                                               *)
GuestCreditConsumed ==
  /\ marker = Null
  /\ marker' = Some("true")
  /\ UNCHANGED <<cMounted, guestCredits, timeUntilReset, intervals, cInterval,
                 nextInterval>>
  /\ UNCHANGED <<hookVars, classifyVars, retryVars, authVars, countdownVars>>

CreditNext ==
  \/ CreditMount
  \/ \E u \in {Null, Some(UserId)} : UserChanges(u)
  \/ \E t \in CreditResetTimes : ResetTimeChanges(t)
  \/ \E t \in intervals : IntervalFires(t)
  \/ CreditUnmount
  \/ GuestCreditConsumed
  \/ Tick

SpecCredit == CreditInit /\ [][CreditNext]_vars

(* C14: at every step where the guest credit is computed, the mount and    *)
(* each change of isAuthenticated to false, guestCredits becomes 1 if the  *)
(* marker is absent and 0 if it is present; and no step removes a marker   *)
(* that is set.                                                            *)
C14_GuestAllowance ==
  [][/\ (cMounted' /\ (~cMounted \/ (user # Null /\ user' = Null)))
          => guestCredits' = IF marker' = Null THEN 1 ELSE 0
     /\ marker # Null => marker' = marker]_vars

C14_Witness ==
  /\ cMounted
  /\ marker # Null
  /\ user = Null
  /\ guestCredits = 0

(* C18: at most one interval timer is set at any time, and it is the one   *)
(* set for the current resetTime of a mounted CreditSystem; while no       *)
(* CreditSystem is mounted no timer is set and the auth-state subscription *)
(* of useAuth is not live.                                                 *)
C18_OneIntervalAtMost ==
  /\ Cardinality(intervals) <= 1
  /\ \A t \in intervals :
       /\ cMounted
       /\ resetTime = Some(t.resetTime)
       /\ cInterval = Some(t.id)
  /\ ~cMounted => (intervals = {} /\ ~subscribed)

C18_Witness ==
  /\ cMounted
  /\ nextInterval = 2
  /\ Cardinality(intervals) = 1
  /\ resetTime # Null

====
